---- MODULE Spec2Model ----
(***************************************************************************)
(* AI Art Helper (src/app.py): a Streamlit script with three buttons       *)
(* (Generate Prompt, Analyze Style, Run CrewAI Workflow), one completion   *)
(* wrapper (groq_chat), two prompt templates, the CrewAI pipeline builder  *)
(* (run_crewai) and the PDF exporter (generate_pdf).                       *)
(*                                                                         *)
(* Text.  A Python str is modelled as a sequence of pieces whose           *)
(* concatenation is the string.  Text typed by the user has one character  *)
(* per piece; a string literal of app.py is one piece.  generate_pdf is    *)
(* modelled character by character throughout.                             *)
(*                                                                         *)
(* Dictionaries (os.environ, st.session_state) are functions whose DOMAIN  *)
(* is the set of keys present.                                             *)
(***************************************************************************)
EXTENDS Integers, Sequences, FiniteSets, TLC

VARIABLES
    environ,        \* os.environ after load_dotenv(), restricted to GROQ_API_KEY
    session_state,  \* st.session_state: keys "prompt" and "analysis"
    last,           \* what the latest button click did (inputs, widgets shown, calls made)
    outbound,       \* number of calls handed to the remote-facing libraries so far
    clicks,         \* number of clicks / direct invocations so far
    chat,           \* the latest direct invocation of groq_chat
    pdf             \* the latest invocation of generate_pdf

vars == <<environ, session_state, last, outbound, clicks, chat, pdf>>

----------------------------------------------------------------------------
(* Bounds of the model *)

MaxClicks == 2
MaxLen == 2
MaxBodyLen == 3
MaxTitleLen == 1

BoundedSeq(S, n) == UNION {[1..k -> S] : k \in 0..n}

----------------------------------------------------------------------------
(* Text *)

NL == "\n"
Whitespace == {" ", NL, "\t"}
Chars == {"a", " ", NL}

\* the texts a user can type into a text_area / text_input
Texts == BoundedSeq(Chars, MaxLen)
Styles == {<<>>, <<"w">>}
Hints == {<<>>, <<"P">>}

\* str.strip(): drop leading and trailing whitespace
RECURSIVE lstrip(_)
lstrip(s) ==
    IF s = <<>> THEN <<>>
    ELSE IF Head(s) \in Whitespace THEN lstrip(Tail(s)) ELSE s

RECURSIVE rstrip(_)
rstrip(s) ==
    IF s = <<>> THEN <<>>
    ELSE IF s[Len(s)] \in Whitespace THEN rstrip(SubSeq(s, 1, Len(s) - 1)) ELSE s

strip_none(s) == s

strip(s) == rstrip(lstrip(s))

----------------------------------------------------------------------------
(* Dictionaries *)

EmptyDict == [k \in {} |-> <<>>]

\* d.get(k): the value, or None (reported as absent)
Has(d, k) == k \in DOMAIN d

\* d[k] = v
SetItem(d, k, v) == [x \in (DOMAIN d) \cup {k} |-> IF x = k THEN v ELSE d[x]]

\* truthiness of d.get(k) for a str-valued dictionary
Truthy(d, k) == Has(d, k) /\ d[k] # <<>>

----------------------------------------------------------------------------
(* Credential and client (module level, lines 26-29) *)

\* os.getenv("GROQ_API_KEY") or ""
GROQ_API_KEY == IF Has(environ, "GROQ_API_KEY") THEN environ["GROQ_API_KEY"] ELSE <<>>

\* client = Groq(api_key=GROQ_API_KEY) if GROQ_API_KEY else None
client == IF GROQ_API_KEY # <<>> THEN "Groq" ELSE "None"

Environs == {EmptyDict, [k \in {"GROQ_API_KEY"} |-> <<>>], [k \in {"GROQ_API_KEY"} |-> <<"k">>]}

----------------------------------------------------------------------------
(* What the remote-facing libraries can answer *)

Contents == {<<"T1">>, <<"T2">>}
Errors == {<<"E1">>}

\* the outcome of one library call: it returns a text or raises an Exception
RemoteOutcomes ==
    [kind : {"ok"}, text : Contents] \cup [kind : {"raise"}, text : Errors]

\* a library call that is never made has no outcome
Unreached == [kind |-> "unreached", text |-> <<>>]

\* client.chat.completions.create is reached only with a client (line 36)
CreateOutcomes == IF client = "None" THEN {Unreached} ELSE RemoteOutcomes

\* crew.kickoff() is reached only when every constructor returned (lines 80-138);
\* without a key its completion requests are refused ("Groq calls will fail",
\* line 28), so it can only raise
KickoffOutcomes(construct) ==
    IF construct # "ok" THEN {Unreached}
    ELSE IF GROQ_API_KEY = <<>> THEN [kind : {"raise"}, text : Errors]
    ELSE RemoteOutcomes

----------------------------------------------------------------------------
(* groq_chat (lines 35-46) *)

DefaultModel == "llama-3.1-8b-instant"

\* temperatures in hundredths
DefaultTemperature == 60
PromptTemperature == 80
AnalysisTemperature == 55

NotConfigured == <<"Groq is not configured. Add GROQ_API_KEY in .env.">>

CreateCall(prompt, model, temperature) ==
    [api |-> "client.chat.completions.create",
     model |-> model,
     messages |-> <<[role |-> "user", content |-> prompt]>>,
     temperature |-> temperature]

\* the guard of line 36 left out: client.chat on None raises inside the try
groq_chat_unguarded(prompt, model, temperature, remote) ==
    IF client = "None"
    THEN [raised |-> FALSE, calls |-> <<>>,
          result |-> <<"Groq Error: ", "'NoneType' object has no attribute 'chat'">>]
    ELSE IF remote.kind = "ok"
    THEN [raised |-> FALSE, calls |-> <<CreateCall(prompt, model, temperature)>>,
          result |-> remote.text]
    ELSE [raised |-> FALSE, calls |-> <<CreateCall(prompt, model, temperature)>>,
          result |-> <<"Groq Error: ">> \o remote.text]

\* a failed call tried once more
groq_chat_retry(prompt, model, temperature, remote) ==
    IF client = "None"
    THEN [raised |-> FALSE, calls |-> <<>>, result |-> NotConfigured]
    ELSE IF remote.kind = "ok"
    THEN [raised |-> FALSE, calls |-> <<CreateCall(prompt, model, temperature)>>,
          result |-> remote.text]
    ELSE [raised |-> FALSE,
          calls |-> <<CreateCall(prompt, model, temperature),
                      CreateCall(prompt, model, temperature)>>,
          result |-> <<"Groq Error: ">> \o remote.text]

\* result: the returned str; calls: the library calls made; raised: an exception escaped
groq_chat(prompt, model, temperature, remote) ==
    IF client = "None"
    THEN [raised |-> FALSE, calls |-> <<>>, result |-> NotConfigured]
    ELSE IF remote.kind = "ok"
    THEN [raised |-> FALSE, calls |-> <<CreateCall(prompt, model, temperature)>>,
          result |-> remote.text]
    ELSE [raised |-> FALSE, calls |-> <<CreateCall(prompt, model, temperature)>>,
          result |-> <<"Groq Error: ">> \o remote.text]

----------------------------------------------------------------------------
(* Prompt templates (lines 52-72) *)

ArtSystem ==
    <<"You are an expert AI art prompt engineer. Generate a high-quality prompt with cinematic details, camera setup, lighting, mood, color palette, realism level, and composition.">>

CriticSystem ==
    <<"You are a professional art critic. Analyze the description and explain style, genre, lighting, color theory, emotion, composition, and improvements.">>

\* the style line left out when no style is given
art_prompt_optional_style(description, style) ==
    IF style = <<>>
    THEN ArtSystem \o <<NL, NL>> \o <<"Description: ">> \o description
    ELSE ArtSystem \o <<NL, NL>> \o <<"Description: ">> \o description
             \o <<NL>> \o <<"Style: ">> \o style

\* f"{system}\n\nDescription: {description}\nStyle: {style}"
art_prompt(description, style) ==
    ArtSystem \o <<NL, NL>> \o <<"Description: ">> \o description
        \o <<NL>> \o <<"Style: ">> \o style

generate_art_prompt(description, style, remote) ==
    groq_chat(art_prompt(description, style), DefaultModel, PromptTemperature, remote)

\* f"{system}\n\nArtwork: {description}"
analysis_prompt(description) ==
    CriticSystem \o <<NL, NL>> \o <<"Artwork: ">> \o description

analyze_art_style(description, remote) ==
    groq_chat(analysis_prompt(description), DefaultModel, AnalysisTemperature, remote)

----------------------------------------------------------------------------
(* run_crewai (lines 78-141) *)

\* which constructor call of lines 80-135 raises, if any ("ok": none does)
ConstructOutcomes == {"ok", "LLM", "Agent", "Task", "Crew"}

\* LLM(model=..., api_key=os.getenv("GROQ_API_KEY"), temperature=0.6)
CrewTemperature == 60

groq_llm ==
    [model |-> "groq/llama-3.1-8b-instant",
     api_key |-> IF Has(environ, "GROQ_API_KEY") THEN environ["GROQ_API_KEY"] ELSE <<"None">>,
     temperature |-> CrewTemperature]

art_director ==
    [name |-> "Art Director", role |-> "Concept Creator",
     goal |-> "Turn the user's idea into a high-quality art concept.",
     backstory |-> "A seasoned art director specializing in cinematic visuals."]

style_expert ==
    [name |-> "Style Expert", role |-> "Style Enhancer",
     goal |-> "Refine the concept with lighting, colors, mood, and references.",
     backstory |-> "Expert in modern and classical art styles."]

photographer ==
    [name |-> "Photographer", role |-> "Camera Consultant",
     goal |-> "Add perfect camera, lens, framing, and realism settings.",
     backstory |-> "A world-class photographer with cinematic experience."]

\* the role hint threaded into the first task
build_tasks_hinted(query, role_hint) ==
    <<[description |-> <<"Create the core concept based on the user request: ">> \o query
                          \o role_hint,
       expected_output |-> "A detailed concept with scene, subject, mood, and artistic idea.",
       agent |-> art_director.name],
      [description |-> <<"Enhance the concept with lighting, color palette, style, and mood.">>,
       expected_output |-> "A refined artistic style with detailed visual improvements.",
       agent |-> style_expert.name],
      [description |-> <<"Add camera, lens, frame, angle, and composition enhancements.">>,
       expected_output |-> "Perfect camera settings and cinematography instructions.",
       agent |-> photographer.name]>>

\* task1, task2, task3 as built in the scope of run_crewai(query, role_hint)
build_tasks(query, role_hint) ==
    <<[description |-> <<"Create the core concept based on the user request: ">> \o query,
       expected_output |-> "A detailed concept with scene, subject, mood, and artistic idea.",
       agent |-> art_director.name],
      [description |-> <<"Enhance the concept with lighting, color palette, style, and mood.">>,
       expected_output |-> "A refined artistic style with detailed visual improvements.",
       agent |-> style_expert.name],
      [description |-> <<"Add camera, lens, frame, angle, and composition enhancements.">>,
       expected_output |-> "Perfect camera settings and cinematography instructions.",
       agent |-> photographer.name]>>

KickoffCall == [api |-> "crew.kickoff"]

\* construct: the outcome of the constructor calls, none of which is inside the try;
\* kick: the outcome of crew.kickoff(), the only call inside the try.
\* tasks: the tasks handed to Crew(...), once all three are built.
run_crewai(query, role_hint, construct, kick) ==
    LET tasks == IF construct \in {"LLM", "Agent", "Task"}
                 THEN <<>> ELSE build_tasks(query, role_hint)
    IN  IF construct # "ok"
        THEN [raised |-> TRUE, failed |-> TRUE, calls |-> <<>>, tasks |-> tasks,
              result |-> <<>>]
        ELSE IF kick.kind = "ok"
        THEN [raised |-> FALSE, failed |-> FALSE, calls |-> <<KickoffCall>>,
              tasks |-> tasks, result |-> kick.text]
        ELSE [raised |-> FALSE, failed |-> TRUE, calls |-> <<KickoffCall>>,
              tasks |-> tasks, result |-> <<"CrewAI Error: ">> \o kick.text]

----------------------------------------------------------------------------
(* generate_pdf (lines 147-180), character by character *)

PdfChars == {"<", ">", "&", NL, "b"}

\* longer bodies that spell markup themselves
SampleBodies ==
    {<<"<", "b", "r", "/", ">">>,
     <<"b", NL, "<", "b", "r", "/", ">", NL>>,
     <<"&", "l", "t", ";", "b", "&", "a", "m", "p", ";">>}

Titles == BoundedSeq(PdfChars, MaxTitleLen)
Bodies == BoundedSeq(PdfChars, MaxBodyLen) \cup SampleBodies

\* str.replace(old, new) for a one-character old
RECURSIVE replace(_, _, _)
replace(s, old, new) ==
    IF s = <<>> THEN <<>>
    ELSE (IF Head(s) = old THEN new ELSE <<Head(s)>>) \o replace(Tail(s), old, new)

\* the ampersand replaced last, so that the entities just written are escaped again
escape_amp_last(data) ==
    replace(replace(replace(data, ">", <<"&", "g", "t", ";">>),
                    "<", <<"&", "l", "t", ";">>),
            "&", <<"&", "a", "m", "p", ";">>)

\* xml.sax.saxutils.escape(data): "&" first, then ">" and "<"
escape(data) ==
    replace(replace(replace(data, "&", <<"&", "a", "m", "p", ";">>),
                    ">", <<"&", "g", "t", ";">>),
            "<", <<"&", "l", "t", ";">>)

BR == <<"<", "b", "r", "/", ">">>

\* story of lines 173-177: the markup handed to Paragraph, with its style
generate_pdf(title, body) ==
    <<[flowable |-> "Paragraph", text |-> escape(title), style |-> "title"],
      [flowable |-> "Spacer", text |-> <<>>, style |-> "none"],
      [flowable |-> "Paragraph", text |-> replace(escape(body), NL, BR), style |-> "body"]>>

----------------------------------------------------------------------------
(* The Streamlit script (lines 186-257): one rerun per button click *)

NoClick ==
    [button |-> "none", text |-> <<>>, aux |-> <<>>, ui |-> "none", message |-> <<>>,
     result |-> <<>>, failed |-> FALSE, calls |-> <<>>, tasks |-> <<>>, downloads |-> {}]

\* the download buttons rendered in a rerun (lines 209-213, 229-233)
Downloads(ss) ==
    (IF Truthy(ss, "prompt") THEN {"ai_art_prompt.pdf"} ELSE {})
        \cup (IF Truthy(ss, "analysis") THEN {"art_style_report.pdf"} ELSE {})

\* the analysis stored under the key of the prompt as well
store_everywhere(ss, key, result) ==
    SetItem(SetItem(ss, "prompt", result), "analysis", result)

\* st.session_state[key] = result (lines 206, 226)
store(ss, key, result) == SetItem(ss, key, result)

\* tab1, lines 201-207
GeneratePrompt(desc, style) ==
    /\ clicks < MaxClicks
    /\ clicks' = clicks + 1
    /\ IF strip(desc) = <<>>
       THEN /\ session_state' = session_state
            /\ outbound' = outbound
            /\ last' = [NoClick EXCEPT !.button = "generate", !.text = desc, !.aux = style,
                            !.ui = "error", !.message = <<"Please enter a description.">>,
                            !.downloads = Downloads(session_state)]
       ELSE \E remote \in CreateOutcomes :
            LET r == generate_art_prompt(desc, style, remote)
                ss == store(session_state, "prompt", r.result)
            IN  /\ session_state' = ss
                /\ outbound' = outbound + Len(r.calls)
                /\ last' = [NoClick EXCEPT !.button = "generate", !.text = desc,
                                !.aux = style, !.ui = "success",
                                !.message = <<"Prompt Generated Successfully!">>,
                                !.result = r.result, !.calls = r.calls,
                                !.failed = (client = "None" \/ remote.kind = "raise"),
                                !.downloads = Downloads(ss)]
    /\ UNCHANGED <<environ, chat, pdf>>

\* tab2, lines 221-227
AnalyzeStyle(desc2) ==
    /\ clicks < MaxClicks
    /\ clicks' = clicks + 1
    /\ IF strip(desc2) = <<>>
       THEN /\ session_state' = session_state
            /\ outbound' = outbound
            /\ last' = [NoClick EXCEPT !.button = "analyze", !.text = desc2,
                            !.ui = "error", !.message = <<"Please enter a description.">>,
                            !.downloads = Downloads(session_state)]
       ELSE \E remote \in CreateOutcomes :
            LET r == analyze_art_style(desc2, remote)
                ss == store(session_state, "analysis", r.result)
            IN  /\ session_state' = ss
                /\ outbound' = outbound + Len(r.calls)
                /\ last' = [NoClick EXCEPT !.button = "analyze", !.text = desc2,
                                !.ui = "success",
                                !.message = <<"Style Analysis Completed!">>,
                                !.result = r.result, !.calls = r.calls,
                                !.failed = (client = "None" \/ remote.kind = "raise"),
                                !.downloads = Downloads(ss)]
    /\ UNCHANGED <<environ, chat, pdf>>

\* tab3, lines 242-248; an exception escaping run_crewai ends the rerun
RunCrewAI(query, role_hint) ==
    /\ clicks < MaxClicks
    /\ clicks' = clicks + 1
    /\ session_state' = session_state
    /\ IF strip(query) = <<>>
       THEN /\ outbound' = outbound
            /\ last' = [NoClick EXCEPT !.button = "run", !.text = query, !.aux = role_hint,
                            !.ui = "error", !.message = <<"Please enter a question.">>,
                            !.downloads = Downloads(session_state)]
       ELSE \E construct \in ConstructOutcomes : \E kick \in KickoffOutcomes(construct) :
            LET r == run_crewai(query, role_hint, construct, kick)
            IN  /\ outbound' = outbound + Len(r.calls)
                /\ last' = [NoClick EXCEPT !.button = "run", !.text = query,
                                !.aux = role_hint,
                                !.ui = IF r.raised THEN "exception" ELSE "response",
                                !.message = IF r.raised THEN <<>> ELSE <<"CrewAI Response">>,
                                !.result = r.result, !.calls = r.calls,
                                !.failed = r.failed, !.tasks = r.tasks,
                                !.downloads = Downloads(session_state)]
    /\ UNCHANGED <<environ, chat, pdf>>

NoChat ==
    [invoked |-> FALSE, prompt |-> <<>>, model |-> "", temperature |-> 0,
     raised |-> FALSE, calls |-> <<>>, result |-> <<>>]

NoPdf == [title |-> <<>>, body |-> <<>>, built |-> FALSE, story |-> <<>>]

Init ==
    /\ environ \in Environs
    /\ session_state = EmptyDict
    /\ last = NoClick
    /\ outbound = 0
    /\ clicks = 0
    /\ chat = NoChat
    /\ pdf = NoPdf

Next ==
    \/ \E desc \in Texts, style \in Styles : GeneratePrompt(desc, style)
    \/ \E desc2 \in Texts : AnalyzeStyle(desc2)
    \/ \E query \in Texts, role_hint \in Hints : RunCrewAI(query, role_hint)

Spec == Init /\ [][Next]_vars

----------------------------------------------------------------------------
(* groq_chat invoked directly, with any prompt, model and temperature *)

Models == {DefaultModel, "llama-3.3-70b-versatile"}
Temperatures == {0, DefaultTemperature, 100}

GroqChat(prompt, model, temperature) ==
    /\ clicks < MaxClicks
    /\ clicks' = clicks + 1
    /\ \E remote \in CreateOutcomes :
           LET r == groq_chat(prompt, model, temperature, remote)
           IN  /\ chat' = [invoked |-> TRUE, prompt |-> prompt, model |-> model,
                           temperature |-> temperature, raised |-> r.raised,
                           calls |-> r.calls, result |-> r.result]
               /\ outbound' = outbound + Len(r.calls)
    /\ UNCHANGED <<environ, session_state, last, pdf>>

NextChat ==
    \E prompt \in Texts, model \in Models, temperature \in Temperatures :
        GroqChat(prompt, model, temperature)

SpecChat == Init /\ [][NextChat]_vars

----------------------------------------------------------------------------
(* generate_pdf applied to any title and body *)

InitPdf ==
    /\ environ = EmptyDict
    /\ session_state = EmptyDict
    /\ last = NoClick
    /\ outbound = 0
    /\ clicks = 0
    /\ chat = NoChat
    /\ pdf \in [title : Titles, body : Bodies, built : {FALSE}, story : {<<>>}]

Export ==
    /\ ~pdf.built
    /\ pdf' = [pdf EXCEPT !.built = TRUE, !.story = generate_pdf(pdf.title, pdf.body)]
    /\ UNCHANGED <<environ, session_state, last, outbound, clicks, chat>>

NextPdf == Export

SpecPdf == InitPdf /\ [][NextPdf]_vars

----------------------------------------------------------------------------
(* Properties *)

Buttons == {"generate", "analyze", "run"}

AllWhitespace(s) == \A i \in 1..Len(s) : s[i] \in Whitespace

StartsWith(m, p) == Len(m) >= Len(p) /\ SubSeq(m, 1, Len(p)) = p

Drop(m, n) == SubSeq(m, n + 1, Len(m))

Count(s, c) == Cardinality({i \in 1..Len(s) : s[i] = c})

\* the stored result under key k is the same before and after the step
SameStored(k) ==
    /\ Has(session_state', k) <=> Has(session_state, k)
    /\ Has(session_state, k) => session_state'[k] = session_state[k]

\* C1: a click of any of the three buttons whose required input is empty or only
\* whitespace shows a validation error and makes no library call (neither
\* client.chat.completions.create nor crew.kickoff) in that click.
C1_EmptyInputRejected ==
    (last.button \in Buttons /\ AllWhitespace(last.text))
        => /\ last.ui = "error"
           /\ last.message \in {<<"Please enter a description.">>,
                                <<"Please enter a question.">>}
           /\ last.calls = <<>>
           /\ last.result = <<>>

C1_Witness ==
    /\ client = "Groq"
    /\ last.button = "run"
    /\ last.text = <<" ", NL>>
    /\ last.ui = "error"
    /\ outbound = 1

\* C2: without a credential (GROQ_API_KEY absent or empty) groq_chat returns the same
\* fixed text for every prompt, model and temperature, raises nothing and makes no
\* outbound call.
C2_NotConfiguredText ==
    (client = "None" /\ chat.invoked)
        => /\ chat.result = <<"Groq is not configured. Add GROQ_API_KEY in .env.">>
           /\ ~chat.raised
           /\ chat.calls = <<>>
           /\ outbound = 0

C2_Witness ==
    /\ Has(environ, "GROQ_API_KEY")
    /\ client = "None"
    /\ chat.invoked
    /\ chat.prompt = <<"a">>
    /\ chat.model # DefaultModel
    /\ chat.temperature = 100
    /\ clicks = 2

\* C3: without a credential every action given a non-empty input (generate prompt,
\* analyze style, run pipeline) ends without a fault and yields the fixed
\* "not configured" text.
C3_AllActionsDegrade ==
    (client = "None" /\ last.button \in Buttons /\ ~AllWhitespace(last.text))
        => /\ last.ui # "exception"
           /\ last.result = <<"Groq is not configured. Add GROQ_API_KEY in .env.">>

\* C4: no failure leaves groq_chat or run_crewai as an exception: a failure at any
\* step (the constructors of run_crewai included) comes back as a string that
\* starts with "Groq Error: " or "CrewAI Error: ".
C4_NoFailureEscapes ==
    /\ last.ui # "exception"
    /\ (last.button \in {"generate", "analyze"} /\ last.failed /\ last.calls # <<>>)
           => StartsWith(last.result, <<"Groq Error: ">>)
    /\ (last.button = "run" /\ last.failed)
           => StartsWith(last.result, <<"CrewAI Error: ">>)

\* C6: with a credential, every generate-prompt or analyze-style click that passes
\* validation invokes groq_chat once and that invocation makes exactly one call of
\* client.chat.completions.create, whether it returns or raises, and whatever was
\* sent before (no retry, no cache); no such click makes more than one call.
C6_OneCallPerInvocation ==
    [][(clicks' = clicks + 1 /\ last'.button \in {"generate", "analyze"})
          => /\ Len(last'.calls) <= 1
             /\ outbound' = outbound + Len(last'.calls)
             /\ (client = "Groq" /\ ~AllWhitespace(last'.text))
                    => /\ Len(last'.calls) = 1
                       /\ last'.calls[1].api = "client.chat.completions.create"
                       /\ outbound' = outbound + 1]_vars

C6_Witness ==
    /\ client = "Groq"
    /\ last.button = "generate"
    /\ last.failed
    /\ Len(last.calls) = 1
    /\ outbound = 2
    /\ clicks = 2

\* C7: a generate-prompt click changes at most the stored "prompt", an analyze-style
\* click at most the stored "analysis", a run-pipeline click neither, and a click
\* rejected by validation changes no stored result at all.
C7_ActionsIndependent ==
    [][(clicks' = clicks + 1)
          => /\ last'.button = "generate" => SameStored("analysis")
             /\ last'.button = "analyze" => SameStored("prompt")
             /\ last'.button = "run" => session_state' = session_state
             /\ last'.ui = "error" => session_state' = session_state]_vars

C7_Witness ==
    /\ last.button = "analyze"
    /\ last.failed
    /\ Has(session_state, "prompt")
    /\ Has(session_state, "analysis")
    /\ session_state["prompt"] = <<"T1">>
    /\ session_state["analysis"] = <<"Groq Error: ", "E1">>

\* what the layout engine shows for markup m: an entity is its character, <br/> is a
\* line break, and a bare "<", ">" or "&" is markup structure
RECURSIVE Rendered(_)
Rendered(m) ==
    IF m = <<>> THEN <<>>
    ELSE IF StartsWith(m, <<"<", "b", "r", "/", ">">>) THEN <<NL>> \o Rendered(Drop(m, 5))
    ELSE IF StartsWith(m, <<"&", "a", "m", "p", ";">>) THEN <<"&">> \o Rendered(Drop(m, 5))
    ELSE IF StartsWith(m, <<"&", "l", "t", ";">>) THEN <<"<">> \o Rendered(Drop(m, 4))
    ELSE IF StartsWith(m, <<"&", "g", "t", ";">>) THEN <<">">> \o Rendered(Drop(m, 4))
    ELSE IF Head(m) \in {"<", ">", "&"} THEN <<"MARKUP">> \o Rendered(Tail(m))
    ELSE <<Head(m)>> \o Rendered(Tail(m))

CountBr(m) ==
    Cardinality({i \in 1..Len(m) : StartsWith(Drop(m, i - 1), <<"<", "b", "r", "/", ">">>)})

\* C8: the markup generate_pdf hands to Paragraph holds no structure that comes from
\* the input: every "<", ">" and "&" of title and body is escaped, and the body markup
\* holds exactly one "<br/>" per newline of the body, at that newline's position.
C8_MarkupEscaped ==
    pdf.built
        => /\ Len(pdf.story) = 3
           /\ Rendered(pdf.story[1].text) = pdf.title
           /\ CountBr(pdf.story[1].text) = 0
           /\ Rendered(pdf.story[3].text) = pdf.body
           /\ CountBr(pdf.story[3].text) = Count(pdf.body, NL)
           /\ Count(pdf.story[3].text, NL) = 0

C8_Witness ==
    /\ pdf.built
    /\ pdf.title = <<"&">>
    /\ pdf.body = <<"b", NL, "<", "b", "r", "/", ">", NL>>
    /\ CountBr(pdf.story[3].text) = 2

\* C9: the prompt generate_art_prompt sends is the expert instruction, a blank line,
\* "Description: " and the description verbatim, a newline, "Style: " and the style
\* verbatim (the label also for an empty style); analyze_art_style sends the critic
\* instruction, a blank line, "Artwork: " and the description verbatim.
C9_PromptLayout ==
    (last.button \in {"generate", "analyze"} /\ last.calls # <<>>)
        => LET msgs == last.calls[1].messages
               p == msgs[1].content
               d == last.text
               n == Len(last.text)
           IN  /\ Len(msgs) = 1
               /\ msgs[1].role = "user"
               /\ p[2] = NL /\ p[3] = NL
               /\ SubSeq(p, 5, 4 + n) = d
               /\ last.button = "generate"
                      => /\ Len(p) = 6 + n + Len(last.aux)
                         /\ p[1] = "You are an expert AI art prompt engineer. Generate a high-quality prompt with cinematic details, camera setup, lighting, mood, color palette, realism level, and composition."
                         /\ p[4] = "Description: "
                         /\ p[5 + n] = NL
                         /\ p[6 + n] = "Style: "
                         /\ SubSeq(p, 7 + n, Len(p)) = last.aux
               /\ last.button = "analyze"
                      => /\ Len(p) = 4 + n
                         /\ p[1] = "You are a professional art critic. Analyze the description and explain style, genre, lighting, color theory, emotion, composition, and improvements."
                         /\ p[4] = "Artwork: "

C9_Witness ==
    /\ last.button = "generate"
    /\ last.calls # <<>>
    /\ last.text = <<" ", "a">>
    /\ last.aux = <<>>

\* C10: the three task descriptions a pipeline run builds depend on the query alone:
\* the first is a fixed text followed by the query verbatim, the second and third are
\* fixed texts, and a run that follows a run with the same query builds the same three
\* descriptions whatever the two role hints are.
C10_TasksFromQueryAlone ==
    [][(clicks' = clicks + 1 /\ last'.button = "run" /\ last'.tasks # <<>>)
          => /\ Len(last'.tasks) = 3
             /\ last'.tasks[1].description
                    = <<"Create the core concept based on the user request: ">> \o last'.text
             /\ last'.tasks[2].description
                    = <<"Enhance the concept with lighting, color palette, style, and mood.">>
             /\ last'.tasks[3].description
                    = <<"Add camera, lens, frame, angle, and composition enhancements.">>
             /\ (last.button = "run" /\ last.tasks # <<>> /\ last.text = last'.text)
                    => last'.tasks = last.tasks]_vars

C10_Witness ==
    /\ clicks = 2
    /\ last.button = "run"
    /\ last.text = <<"a", NL>>
    /\ last.aux = <<"P">>
    /\ Len(last.tasks) = 3
    /\ last.ui = "response"

====
